---- MODULE Spec2Model ----
(***************************************************************************)
(* Model of ally2ledger.py: a four stage pipeline                          *)
(*   read_input_csv -> write_output_csv -> convert_csv -> open/write       *)
(* run by one or more independent program runs over one file system.       *)
(*                                                                         *)
(* A file is a sequence of CSV rows, a row a sequence of field strings.    *)
(* A command line string is a sequence of atoms, an atom being either the  *)
(* one-character string " " or a word that holds no whitespace.            *)
(***************************************************************************)
EXTENDS Integers, Sequences, FiniteSets, TLC

VARIABLES fs, pc, args, transactions, output, stdout, exitcode,
          argv, toolrc, log, tmpWriters, destAfter, pred, fs0

vars == <<fs, pc, args, transactions, output, stdout, exitcode,
          argv, toolrc, log, tmpWriters, destAfter, pred, fs0>>

(* ---------------------------- bounds ------------------------------------ *)

\* number of program runs the concurrent specification launches
NumProcs == 2
\* largest number of rows (header included) of an input file
MaxRows == 3

Procs == 1..NumProcs

(* ---------------------------- values ------------------------------------ *)

\* Python's None; no field of the model's input files is this string
None == "<None>"

\* a path that names no file; also the value of a path not yet set
NoFile == "missing.csv"

\* names tempfile.NamedTemporaryFile(prefix='ledger-', suffix='.csv') may draw
TmpNames == {"/tmp/ledger-a.csv", "/tmp/ledger-b.csv", "/tmp/ledger-c.csv"}
InputPaths == {"in.csv", "in2.csv", NoFile, "secret.csv"}
DestPath == "out.ledger"
Paths == TmpNames \cup InputPaths \cup {DestPath}

\* account names given on the command line: one without and one with a space
Accounts == {<<"Assets:Checking">>, <<"Assets", " ", "Checking">>}

HeaderRow == <<"Date", "Time", "Amount", "Type", "Description">>
RowA == <<"2024-01-02", "10:00", "-50.00", "Withdrawal", "ATM">>
RowB == <<"2024-01-03", "11:30", "20.00", "Deposit", "Payroll">>
\* five fields, all empty: the time value equals every other value
RowE == <<"", "", "", "", "">>
\* rows that do not have five fields: blank line, two fields, six fields
RowBlank == <<>>
RowShort == <<"2024-01-04", "12:00">>
RowLong == <<"2024-01-05", "13:00", "7.00", "Fee", "Wire", "extra">>

\* the rows of "in.csv"; RowB is a row of "in2.csv"
RowPool == {HeaderRow, RowA, RowE, RowBlank, RowShort, RowLong}

SeqsUpTo(S, n) == UNION {[1..k -> S] : k \in 0..n}

\* contents of the input file "in.csv"
InputFiles == SeqsUpTo(RowPool, MaxRows)
\* contents of "in.csv" in the concurrent specification
ConcFiles == {<<HeaderRow, RowA>>}

OldContent == <<<<"old", "ledger", "text">>, <<"more">>, <<"old">>, <<"lines">>, <<"here">>>>

(* ---------------------------- files ------------------------------------- *)

Absent == [exists |-> FALSE, readable |-> FALSE, data |-> <<>>]
File(d) == [exists |-> TRUE, readable |-> TRUE, data |-> d]

\* faulty variant: only a missing file makes open fail
OpenReadFails_exists(f, path) == ~f[path].exists

\* open(path, 'r') raises unless the file exists and is readable
OpenReadFails(f, path) == ~(f[path].exists /\ f[path].readable)

\* open(path, mode): 'w' creates or truncates, 'a' creates or keeps
OpenWrite(f, path, mode) ==
  IF mode = "wb" \/ ~f[path].exists THEN [f EXCEPT ![path] = File(<<>>)] ELSE f

\* fp.write(bytes) on a fresh handle: at offset 0 in mode 'w', at the end
\* of the file in mode 'a'
WriteFile(old, bytes, mode) ==
  IF mode = "wb" THEN bytes \o SubSeq(old, Len(bytes) + 1, Len(old))
  ELSE old \o bytes

\* faulty variant: the name is not checked against the existing files
FreshNames_any(f) == TmpNames

\* mkstemp (O_CREAT | O_EXCL): the names that can be created
FreshNames(f) == {n \in TmpNames : ~f[n].exists}

(* ---------------------------- read_input_csv ---------------------------- *)

fieldnames == <<"date", "time", "amount", "type", "description">>

Reverse(s) == [i \in 1..Len(s) |-> s[Len(s) + 1 - i]]

\* csv.DictReader.__next__ skips rows that have no field at all
DictReaderRows(rows) == SelectSeq(rows, LAMBDA r : r # <<>>)

Field(r, i) == IF i <= Len(r) THEN r[i] ELSE None

\* csv.DictReader: zip the fieldnames with the row; missing values are
\* restval (None), values beyond the fieldnames go to the restkey
DictReaderRow(r) ==
  [date |-> Field(r, 1), time |-> Field(r, 2), amount |-> Field(r, 3),
   type |-> Field(r, 4), description |-> Field(r, 5),
   rest |-> SubSeq(r, Len(fieldnames) + 1, Len(r))]

\* faulty variant: the first row is skipped only when it looks like a header
SkipFirst_ifheader(recs) ==
  IF recs # <<>> /\ recs[1].date = "Date" THEN Tail(recs) ELSE recs

\* for (idx, row) in enumerate(input_reader): if not idx: continue
SkipFirst(recs) == IF recs = <<>> THEN <<>> ELSE Tail(recs)

\* faulty variant: transactions.reverse() is missing
read_input_csv_noreverse(rows) ==
  LET yielded == DictReaderRows(rows)
      recs == [i \in 1..Len(yielded) |-> DictReaderRow(yielded[i])]
  IN SkipFirst(recs)

read_input_csv(rows) ==
  LET yielded == DictReaderRows(rows)
      recs == [i \in 1..Len(yielded) |-> DictReaderRow(yielded[i])]
  IN Reverse(SkipFirst(recs))

(* ---------------------------- write_output_csv -------------------------- *)

out_fieldnames == <<"amount", "date", "description", "note">>

\* faulty variant: the note is taken from the time column
OutputRow_time(row) ==
  [amount |-> row.amount, date |-> row.date,
   description |-> row.description, note |-> row.time]

\* the dict handed to DictWriter.writerow
OutputRow(row) ==
  [amount |-> row.amount, date |-> row.date,
   description |-> row.description, note |-> row.type]

\* faulty variant: None is written as it is
WriteField_asis(v) == v

\* csv.writer writes None as the empty string
WriteField(v) == IF v = None THEN "" ELSE v

\* DictWriter.writerow: the values in fieldnames order
WriteRow(d) ==
  <<WriteField(d.amount), WriteField(d.date),
    WriteField(d.description), WriteField(d.note)>>

TempContent(trans) ==
  <<out_fieldnames>> \o [i \in 1..Len(trans) |-> WriteRow(OutputRow(trans[i]))]

(* ---------------------------- convert_csv ------------------------------- *)

\* the f-string of convert_csv; it ends with a space
Cmd(input_csv, account) ==
  <<"ledger", " ", "convert", " ">> \o input_csv \o
  <<" ", "--input-date-format", " ", "\"%Y-%m-%d\"", " ">> \o
  <<"--account", " ">> \o account \o <<" ">>

RECURSIVE SplitAcc(_, _, _)
SplitAcc(s, cur, acc) ==
  IF s = <<>> THEN Append(acc, cur)
  ELSE IF Head(s) = " " THEN SplitAcc(Tail(s), <<>>, Append(acc, cur))
  ELSE SplitAcc(Tail(s), Append(cur, Head(s)), acc)

\* str.split(' '): every single space separates, empty pieces are kept
Split(s) == SplitAcc(s, <<>>, <<>>)

\* faulty variant: check=False, the return code is ignored
RunRaises_never(rc) == FALSE

\* subprocess.run(..., check=True) raises on a nonzero return code
RunRaises(rc) == rc # 0

\* faulty variant: every outcome exits with 0
ExitCodeOf_zero(outcome) == 0

\* sys.exit(0) when main reaches its end; an uncaught exception exits with 1
ExitCodeOf(outcome) == IF outcome = "ok" THEN 0 ELSE 1

\* faulty variant: the destination is opened for appending
PersistMode_append == "ab"

\* the mode main opens args.output with
PersistMode == "wb"

RECURSIVE Flatten(_)
Flatten(ss) == IF ss = <<>> THEN <<>> ELSE Head(ss) \o Flatten(Tail(ss))

\* The external tool, opaque: on success its standard output is a function
\* of the CSV content and of the arguments that follow the path.
LedgerStdout(csv, av) ==
  <<Flatten(SubSeq(av, 4, Len(av)))>> \o SubSeq(csv, 2, Len(csv))

\* the file the tool is asked to convert: its third argument
ToolFile(av) ==
  IF Len(av) >= 3 /\ Len(av[3]) = 1 /\ av[3][1] \in TmpNames
  THEN av[3][1] ELSE NoFile

(* ---------------------------- the runs ---------------------------------- *)

\* the command lines: account, INPUT-FILE, OUTPUT-FILE
ArgSets == [account : Accounts, input : InputPaths, output : {DestPath}]
\* the command lines of the concurrent specification
ConcArgSets ==
  [account : {<<"Assets:Checking">>}, input : {"in.csv", "in2.csv", NoFile},
   output : {DestPath}]

InitCommon ==
  /\ transactions = [p \in Procs |-> <<>>]
  /\ output = [p \in Procs |-> NoFile]
  /\ stdout = [p \in Procs |-> <<>>]
  /\ exitcode = [p \in Procs |-> -1]
  /\ argv = [p \in Procs |-> <<>>]
  /\ toolrc = [p \in Procs |-> -1]
  /\ log = [p \in Procs |-> <<>>]
  /\ tmpWriters = [n \in TmpNames |-> {}]
  /\ destAfter = [p \in Procs |-> <<>>]
  /\ pred = [p \in Procs |-> {}]
  /\ fs0 = fs

InitFs(files, olds) ==
  \E content \in files, old \in olds :
    fs = [n \in Paths |->
            IF n = "in.csv" THEN File(content)
            ELSE IF n = "in2.csv" THEN File(<<HeaderRow, RowB>>)
            ELSE IF n = "secret.csv"
                 THEN [exists |-> TRUE, readable |-> FALSE, data |-> <<HeaderRow>>]
            ELSE IF n = DestPath THEN old
            ELSE Absent]

\* one program run, any command line, over any input file
Init ==
  /\ InitFs(InputFiles, {Absent, File(OldContent)})
  /\ pc = [p \in Procs |-> IF p = 1 THEN "idle" ELSE "off"]
  /\ \E a \in ArgSets : args = [p \in Procs |-> a]
  /\ InitCommon

\* NumProcs program runs, in any interleaving, over two input files
InitConc ==
  /\ InitFs(ConcFiles, {File(OldContent)})
  /\ pc = [p \in Procs |-> "idle"]
  /\ args \in [Procs -> ConcArgSets]
  /\ InitCommon

Fail(p, stage) ==
  /\ pc' = [pc EXCEPT ![p] = "failed"]
  /\ exitcode' = [exitcode EXCEPT ![p] = ExitCodeOf("fail")]
  /\ log' = [log EXCEPT ![p] = Append(@, <<stage, "fail">>)]

Ok(p, stage, next) ==
  /\ pc' = [pc EXCEPT ![p] = next]
  /\ log' = [log EXCEPT ![p] = Append(@, <<stage, "ok">>)]

\* the program is started: main(_parse_args())
Launch(p) ==
  /\ pc[p] = "idle"
  /\ pc' = [pc EXCEPT ![p] = "start"]
  /\ pred' = [pred EXCEPT ![p] = {q \in Procs : pc[q] = "done"}]
  /\ UNCHANGED <<fs, args, transactions, output, stdout, exitcode, argv, toolrc,
                 log, tmpWriters, destAfter, fs0>>

\* transactions = read_input_csv(args.input)
Reader(p) ==
  /\ pc[p] = "start"
  /\ ~OpenReadFails(fs, args[p].input)
  /\ transactions' = [transactions EXCEPT ![p] = read_input_csv(fs[args[p].input].data)]
  /\ Ok(p, "Reader", "read")
  /\ UNCHANGED <<fs, args, output, stdout, exitcode, argv, toolrc, tmpWriters, destAfter, pred, fs0>>

ReaderFail(p) ==
  /\ pc[p] = "start"
  /\ OpenReadFails(fs, args[p].input)
  /\ Fail(p, "Reader")
  /\ UNCHANGED <<fs, args, transactions, output, stdout, argv, toolrc, tmpWriters, destAfter, pred, fs0>>

\* tempfile.NamedTemporaryFile(..., delete=False): the file is created empty
WriterCreate(p) ==
  /\ pc[p] = "read"
  /\ \E n \in FreshNames(fs) :
       /\ fs' = [fs EXCEPT ![n] = File(<<>>)]
       /\ output' = [output EXCEPT ![p] = n]
  /\ pc' = [pc EXCEPT ![p] = "created"]
  /\ UNCHANGED <<args, transactions, stdout, exitcode, argv, toolrc, log, tmpWriters, destAfter, pred, fs0>>

\* the temporary directory is not writable, or no name is left
WriterFail(p) ==
  /\ pc[p] = "read"
  /\ Fail(p, "Writer")
  /\ UNCHANGED <<fs, args, transactions, output, stdout, argv, toolrc, tmpWriters, destAfter, pred, fs0>>

\* writeheader, one writerow per transaction, flushed when the with block ends
WriterWrite(p) ==
  /\ pc[p] = "created"
  /\ fs' = [fs EXCEPT ![output[p]].data = WriteFile(@, TempContent(transactions[p]), "wb")]
  /\ tmpWriters' = [tmpWriters EXCEPT ![output[p]] = @ \cup {p}]
  /\ Ok(p, "Writer", "written")
  /\ UNCHANGED <<args, transactions, output, stdout, exitcode, argv, toolrc, destAfter, pred, fs0>>

\* exit statuses of the external tool: success, failure
ReturnCodes == {0, 2}

\* subprocess.run(cmd.split(' '), capture_output=True, check=True)
Convert(p) ==
  /\ pc[p] = "written"
  /\ LET av == Split(Cmd(<<output[p]>>, args[p].account)) IN
     \E rc \in ReturnCodes :
       /\ rc = 0 => fs[ToolFile(av)].exists
       /\ argv' = [argv EXCEPT ![p] = av]
       /\ toolrc' = [toolrc EXCEPT ![p] = rc]
       /\ IF RunRaises(rc)
          THEN /\ Fail(p, "Invocation")
               /\ UNCHANGED stdout
          ELSE /\ Ok(p, "Invocation", "converted")
               /\ stdout' = [stdout EXCEPT ![p] =
                               IF rc = 0 THEN LedgerStdout(fs[ToolFile(av)].data, av)
                               ELSE <<>>]
               /\ UNCHANGED exitcode
  /\ UNCHANGED <<fs, args, transactions, output, tmpWriters, destAfter, pred, fs0>>

\* no executable named ledger on the path: subprocess.run raises
ConvertNoExe(p) ==
  /\ pc[p] = "written"
  /\ Fail(p, "Invocation")
  /\ UNCHANGED <<fs, args, transactions, output, stdout, argv, toolrc, tmpWriters, destAfter, pred, fs0>>

\* with open(args.output, 'wb') as fp
PersistOpen(p) ==
  /\ pc[p] = "converted"
  /\ fs' = OpenWrite(fs, args[p].output, PersistMode)
  /\ pc' = [pc EXCEPT ![p] = "opened"]
  /\ UNCHANGED <<args, transactions, output, stdout, exitcode, argv, toolrc, log, tmpWriters, destAfter, pred, fs0>>

\* the destination cannot be opened for writing
PersistOpenFail(p) ==
  /\ pc[p] = "converted"
  /\ Fail(p, "Persister")
  /\ UNCHANGED <<fs, args, transactions, output, stdout, argv, toolrc, tmpWriters, destAfter, pred, fs0>>

\* fp.write(stdout); the with block ends; sys.exit(0)
PersistWrite(p) ==
  /\ pc[p] = "opened"
  /\ fs' = [fs EXCEPT ![args[p].output].data = WriteFile(@, stdout[p], PersistMode)]
  /\ destAfter' = [destAfter EXCEPT ![p] = fs'[args[p].output].data]
  /\ exitcode' = [exitcode EXCEPT ![p] = ExitCodeOf("ok")]
  /\ Ok(p, "Persister", "done")
  /\ UNCHANGED <<args, transactions, output, stdout, argv, toolrc, tmpWriters, pred, fs0>>

\* the write fails (disk full, I/O error) after k rows reached the file
PersistWriteFail(p) ==
  /\ pc[p] = "opened"
  /\ \E k \in 0..(Len(stdout[p]) - 1) :
       fs' = [fs EXCEPT ![args[p].output].data =
                            WriteFile(@, SubSeq(stdout[p], 1, k), PersistMode)]
  /\ Fail(p, "Persister")
  /\ UNCHANGED <<args, transactions, output, stdout, argv, toolrc, tmpWriters, destAfter, pred, fs0>>

Next ==
  \E p \in Procs :
    \/ Launch(p)
    \/ Reader(p)
    \/ ReaderFail(p)
    \/ WriterCreate(p)
    \/ WriterFail(p)
    \/ WriterWrite(p)
    \/ Convert(p)
    \/ ConvertNoExe(p)
    \/ PersistOpen(p)
    \/ PersistOpenFail(p)
    \/ PersistWrite(p)
    \/ PersistWriteFail(p)

Spec == Init /\ [][Next]_vars

SpecConc == InitConc /\ [][Next]_vars

(* ---------------------------- properties -------------------------------- *)

NonBlank(rows) == SelectSeq(rows, LAMBDA r : Len(r) > 0)
Max0(n) == IF n > 0 THEN n ELSE 0
Launched(p) == pc[p] \notin {"idle", "off"}
PastReader(p) == pc[p] \notin {"idle", "off", "start"}
Readable(p) == fs[args[p].input].exists /\ fs[args[p].input].readable
InputOf(p) == fs[args[p].input].data
Ran(p, stage) == \E i \in 1..Len(log[p]) : log[p][i] = <<stage, "ok">>
TempOf(p) == fs[output[p]].data
LastLog(p) == log[p][Len(log[p])]
OutHeader == <<"amount", "date", "description", "note">>
PadField(d, i) == IF i <= Len(d) THEN d[i] ELSE ""
\* the temporary file content expected for an input file
ExpectedTemp(rows) ==
  LET nb == NonBlank(rows)
      M == Max0(Len(nb) - 1)
  IN <<OutHeader>> \o
     [i \in 1..M |-> <<PadField(nb[M + 2 - i], 3), PadField(nb[M + 2 - i], 1),
                       PadField(nb[M + 2 - i], 5), PadField(nb[M + 2 - i], 4)>>]
IsProperPrefix(s, t) == Len(s) < Len(t) /\ s = SubSeq(t, 1, Len(s))
NoSpace(s) == \A i \in 1..Len(s) : s[i] # " "

WellFormed(rows) ==
  /\ Len(rows) >= 2
  /\ Len(rows[1]) >= 1
  /\ \A i \in 2..Len(rows) : Len(rows[i]) = 5

\* C1: for an input file of a header row and N >= 1 data rows of five fields
\* each, the temporary file written by write_output_csv has exactly N data
\* rows after its header, and its i-th data row is derived from the
\* (N+1-i)-th input data row: the order is reversed.
C1_ReverseOrder ==
  \A p \in Procs :
    (Ran(p, "Writer") /\ WellFormed(InputOf(p))) =>
      LET rows == InputOf(p)
          N == Len(rows) - 1
          t == TempOf(p)
      IN /\ Len(t) = N + 1
         /\ \A i \in 1..N :
              LET r == rows[1 + (N + 1 - i)]
              IN t[i + 1] = <<r[3], r[1], r[5], r[4]>>

C1_Witness ==
  \E p \in Procs :
    /\ Ran(p, "Writer")
    /\ WellFormed(InputOf(p))
    /\ Len(InputOf(p)) = 3
    /\ InputOf(p)[2] # InputOf(p)[3]

\* C2: the temporary file's columns are amount, date, description, note in
\* that order; the output row derived from an input data row that has the
\* five fields holds that row's amount, date, description and, as note, its
\* type; the row's time value is in no output column (checked where the time
\* value differs from the four values that are kept).
C2_FieldMapping ==
  \A p \in Procs :
    Ran(p, "Writer") =>
      LET nb == NonBlank(InputOf(p))
          M == Max0(Len(nb) - 1)
          t == TempOf(p)
      IN /\ Len(t) = M + 1
         /\ t[1] = <<"amount", "date", "description", "note">>
         /\ \A j \in 1..M :
              Len(nb[j + 1]) >= 5 =>
                LET d == nb[j + 1]
                    o == t[1 + (M + 1 - j)]
                IN /\ Len(o) = 4
                   /\ o[1] = d[3]
                   /\ o[2] = d[1]
                   /\ o[3] = d[5]
                   /\ o[4] = d[4]
                   /\ (d[2] \notin {d[1], d[3], d[4], d[5]} =>
                         \A c \in 1..4 : o[c] # d[2])

C2_Witness ==
  \E p \in Procs :
    /\ Ran(p, "Writer")
    /\ Len(InputOf(p)) >= 2
    /\ InputOf(p)[1] = HeaderRow
    /\ InputOf(p)[2] = RowA
    /\ TempOf(p)[Len(TempOf(p))] = <<"-50.00", "2024-01-02", "ATM", "Withdrawal">>

Dest == fs[DestPath]
Dest0 == fs0[DestPath]

\* C3 as stated: the destination is opened or written only after the external
\* process exited with status zero, and a run that fails at any stage leaves
\* the destination either untouched or holding the complete captured output.
C3_Original ==
  /\ Dest # Dest0 => \E p \in Procs : toolrc[p] = 0
  /\ \A p \in Procs :
       pc[p] = "failed" =>
         \/ Dest = Dest0
         \/ Dest.exists /\ Dest.data = stdout[p]

\* C3 amended: the destination is opened or written only after the external
\* process exited with status zero; a run that fails in the reader, the
\* writer or the invocation leaves the destination untouched; a run that
\* fails in the persister leaves it untouched (the open failed) or holding a
\* proper prefix, possibly empty, of the captured output (the write failed).
C3_Amended ==
  /\ Dest # Dest0 => \E p \in Procs : toolrc[p] = 0 /\ Ran(p, "Invocation")
  /\ \A p \in Procs :
       /\ pc[p] \in {"opened", "done"} => toolrc[p] = 0
       /\ pc[p] = "failed" =>
            IF LastLog(p)[1] = "Persister"
            THEN \/ Dest = Dest0
                 \/ Dest.exists /\ IsProperPrefix(Dest.data, stdout[p])
            ELSE Dest = Dest0

C3_Witness ==
  \E p \in Procs :
    /\ pc[p] = "failed"
    /\ LastLog(p) = <<"Persister", "fail">>
    /\ Dest0.exists
    /\ Dest.data = SubSeq(stdout[p], 1, 1)
    /\ Len(stdout[p]) > 1

\* C4: a run whose input path does not exist or is unreadable ends in the
\* reader with a nonzero exit; it creates no temporary file, does not invoke
\* the external tool and leaves the file system, the destination included,
\* as it found it.
C4_MissingInput ==
  \A p \in Procs :
    (Launched(p) /\ ~Readable(p)) =>
      /\ pc[p] \in {"start", "failed"}
      /\ pc[p] = "start" => (ENABLED ReaderFail(p)) /\ ~(ENABLED Reader(p))
      /\ pc[p] = "failed" => exitcode[p] > 0 /\ log[p] = <<<<"Reader", "fail">>>>
      /\ output[p] = NoFile
      /\ toolrc[p] = -1
      /\ argv[p] = <<>>
      /\ fs = fs0

C4_Witness ==
  \E p \in Procs :
    /\ pc[p] = "failed"
    /\ args[p].input = "secret.csv"
    /\ fs[args[p].input].exists

Irregular(rows) == \E i \in 2..Len(rows) : Len(rows[i]) # 5

\* C5 as stated: if a data row of the input file does not split into exactly
\* five fields, the reader fails: the run ends with a nonzero exit, no
\* record is returned and no temporary file is written.
C5_Original ==
  \A p \in Procs :
    (PastReader(p) /\ Readable(p) /\ Irregular(InputOf(p))) =>
      /\ pc[p] = "failed"
      /\ log[p] = <<<<"Reader", "fail">>>>
      /\ exitcode[p] > 0
      /\ transactions[p] = <<>>
      /\ output[p] = NoFile

\* C5 amended: a data row that does not split into exactly five fields is no
\* error. The reader succeeds and returns one record per data row that has at
\* least one field (a row with no field is skipped); the fields a short row
\* lacks are None and are written to the temporary file as empty strings;
\* the fields beyond the fifth are ignored.
C5_Amended ==
  \A p \in Procs :
    (PastReader(p) /\ Readable(p) /\ Irregular(InputOf(p))) =>
      /\ log[p][1] = <<"Reader", "ok">>
      /\ Len(transactions[p]) = Max0(Len(NonBlank(InputOf(p))) - 1)
      /\ \A i \in 1..Len(transactions[p]) :
           LET d == NonBlank(InputOf(p))[Len(transactions[p]) + 2 - i]
           IN /\ Len(d) < 5 => transactions[p][i].description = None
              /\ Len(d) >= 5 => transactions[p][i].description = d[5]
      /\ Ran(p, "Writer") => TempOf(p) = ExpectedTemp(InputOf(p))

C5_Witness ==
  \E p \in Procs :
    /\ Ran(p, "Writer")
    /\ InputOf(p) = <<HeaderRow, RowShort, RowLong>>
    /\ TempOf(p) = <<OutHeader, <<"7.00", "2024-01-05", "Wire", "Fee">>,
                     <<"", "2024-01-04", "", "">>>>

HeaderOnly(rows) == Len(rows) = 1 /\ Len(rows[1]) >= 1

\* C6: for an input file that holds only a header row the reader returns the
\* empty sequence without error, the temporary file holds only the header
\* amount,date,description,note, and the external tool is still invoked,
\* once, on that file; whatever the first parsed row holds, it is discarded.
C6_HeaderOnly ==
  \A p \in Procs :
    /\ (PastReader(p) /\ Readable(p)) =>
         LET nb == NonBlank(InputOf(p))
             n == Len(transactions[p])
         IN /\ n = Max0(Len(nb) - 1)
            /\ n > 0 => /\ transactions[p][n].date = nb[2][1]
                        /\ transactions[p][1].date = nb[Len(nb)][1]
    /\ (PastReader(p) /\ Readable(p) /\ HeaderOnly(InputOf(p))) =>
         /\ log[p][1] = <<"Reader", "ok">>
         /\ transactions[p] = <<>>
         /\ Ran(p, "Writer") => TempOf(p) = <<OutHeader>>
         /\ pc[p] = "written" => ENABLED Convert(p)
         /\ pc[p] \in {"converted", "opened", "done"} =>
              /\ toolrc[p] = 0
              /\ argv[p][3] = <<output[p]>>
              /\ Cardinality({i \in 1..Len(log[p]) : log[p][i][1] = "Invocation"}) = 1

C6_Witness ==
  \E p \in Procs :
    /\ pc[p] = "done"
    /\ InputOf(p) = <<RowA>>
    /\ TempOf(p) = <<OutHeader>>

\* C7 as stated: for a path and an account name without whitespace the
\* external process is executed with exactly the seven arguments ledger,
\* convert, <path>, --input-date-format, %Y-%m-%d, --account, <account>, and
\* the value returned is the captured standard output.
C7_Original ==
  \A p \in Procs :
    (toolrc[p] # -1 /\ NoSpace(args[p].account)) =>
      /\ argv[p] = <<<<"ledger">>, <<"convert">>, <<output[p]>>,
                     <<"--input-date-format">>, <<"%Y-%m-%d">>,
                     <<"--account">>, args[p].account>>
      /\ toolrc[p] = 0 => stdout[p] = LedgerStdout(TempOf(p), argv[p])

\* C8: two runs one after the other with the same account, the same input
\* and the same destination, the tool succeeding both times, leave the
\* destination with the same content after the second run as after the first.
C8_Idempotent ==
  \A p, q \in Procs :
    ( /\ p # q
      /\ pc[p] = "done"
      /\ pc[q] = "done"
      /\ p \in pred[q]
      /\ args[p] = args[q]
      /\ \A r \in Procs \ {p, q} : ~Launched(r) ) =>
        /\ fs[args[q].output].exists
        /\ fs[args[q].output].data = destAfter[p]
        /\ destAfter[q] = destAfter[p]

C8_Witness ==
  \E p, q \in Procs :
    /\ p # q
    /\ pc[p] = "done"
    /\ pc[q] = "done"
    /\ p \in pred[q]
    /\ args[p] = args[q]
    /\ \A r \in Procs \ {p, q} : ~Launched(r)
    /\ Dest0.exists
    /\ Len(Dest0.data) > Len(Dest.data)

HasTemp(p) == output[p] # NoFile

\* C9: in every interleaving of the runs, the temporary files of two runs
\* have different paths, a temporary file is written by the run that created
\* it only, the external tool of a run is invoked on the run's own temporary
\* file, which holds the run's own re-mapped records, and a temporary file
\* that was created still exists, also after its run has ended.
C9_TempFiles ==
  /\ \A p, q \in Procs : (p # q /\ HasTemp(p) /\ HasTemp(q)) => output[p] # output[q]
  /\ \A n \in TmpNames : tmpWriters[n] \subseteq {p \in Procs : output[p] = n}
  /\ \A n \in TmpNames : fs0[n].exists => fs[n] = fs0[n]
  /\ \A p \in Procs :
       /\ HasTemp(p) => fs[output[p]].exists
       /\ Ran(p, "Writer") => TempOf(p) = ExpectedTemp(InputOf(p))
       /\ toolrc[p] # -1 =>
            /\ argv[p][3] = <<output[p]>>
            /\ ToolFile(argv[p]) = output[p]
       /\ pc[p] = "converted" => SubSeq(stdout[p], 2, Len(stdout[p])) =
                                   SubSeq(ExpectedTemp(InputOf(p)), 2,
                                          Len(ExpectedTemp(InputOf(p))))

C9_Witness ==
  \E p, q \in Procs :
    /\ p # q
    /\ pc[p] = "written"
    /\ pc[q] = "done"
    /\ args[p].input = "in.csv"
    /\ args[q].input = "in2.csv"
    /\ TempOf(p) # TempOf(q)

StageOrder == <<"Reader", "Writer", "Invocation", "Persister">>

\* C10: the stages of a run execute in the order Reader, Writer, Invocation,
\* Persister, each at most once; a failure, a nonzero exit status of the
\* external process included, is the last thing the run does and gives a
\* nonzero exit code; the exit code is 0 exactly when the four stages
\* completed, and the destination then holds the captured standard output.
C10_Pipeline ==
  \A p \in Procs :
    LET n == Len(log[p]) IN
    /\ n <= 4
    /\ \A i \in 1..n : log[p][i][1] = StageOrder[i]
    /\ \A i \in 1..(n - 1) : log[p][i][2] = "ok"
    /\ pc[p] = "failed" <=> (n > 0 /\ log[p][n][2] = "fail")
    /\ pc[p] = "failed" => exitcode[p] > 0
    /\ toolrc[p] \notin {-1, 0} => pc[p] = "failed" /\ log[p][n] = <<"Invocation", "fail">>
    /\ exitcode[p] # -1 <=> pc[p] \in {"done", "failed"}
    /\ exitcode[p] = 0 <=> (n = 4 /\ log[p][4][2] = "ok")
    /\ exitcode[p] = 0 => /\ pc[p] = "done"
                          /\ fs[args[p].output].exists
                          /\ fs[args[p].output].data = stdout[p]

C10_Witness ==
  \E p \in Procs :
    /\ exitcode[p] = 0
    /\ Len(log[p]) = 4
    /\ fs[args[p].output].data = stdout[p]
    /\ Len(stdout[p]) > 1
    /\ Dest0.exists

====
